---- MODULE Spec2Model ----
(***************************************************************************)
(* Command construction of the reliontomo protocols.                       *)
(*                                                                         *)
(*   ProtRelionDeNovoInitialModel  protocol_de_novo_initial_model.py       *)
(*   ProtRelionTomoReconstruct     protocol_rec_tomogram.py                *)
(*   getProgram                    utils.py                                *)
(*                                                                         *)
(* A command is the Python string the protocol hands to the runner; it is  *)
(* kept as a string, built by the same concatenations as the code, and is  *)
(* split on blanks only where a property speaks about its tokens.          *)
(***************************************************************************)
EXTENDS Integers, Sequences, FiniteSets, TLC

VARIABLES dn, dnPc, dnMsgs, dnSteps, dnRuns, dnRaised,
          rc, rcPc, rcSteps, rcRuns, rcRaised, rcOutput

vars == <<dn, dnPc, dnMsgs, dnSteps, dnRuns, dnRaised,
          rc, rcPc, rcSteps, rcRuns, rcRaised, rcOutput>>

dnVars == <<dn, dnPc, dnMsgs, dnSteps, dnRuns, dnRaised>>
rcVars == <<rc, rcPc, rcSteps, rcRuns, rcRaised, rcOutput>>

(***************************************************************************)
(* Bounds of the model.                                                    *)
(***************************************************************************)
\* Number of optional de-novo parameters the user moves away from their
\* declared defaults before launching.
MaxNonDefault == 2
\* Largest binning factor offered to the reconstruction form, in eighths.
MaxBinEighths == 72

(***************************************************************************)
(* Python values.  A parameter object that holds no value (get() returns   *)
(* None) is the empty tuple, a held value v is <<v>>.                      *)
(***************************************************************************)
None == <<>>
Some(v) == <<v>>
IsNone(o) == Len(o) = 0
Val(o) == o[1]

\* '%i' % n for an int n
Fmt_i(n) == ToString(n)

\* '%.1f' % x for the float x = e / 8.  Every such x is held exactly by a
\* binary float, and the conversion rounds the exact value to the nearest
\* tenth, a tie going to the even tenth.
Tenths_HalfUp(e) ==
    LET t == 10 * e
        q == t \div 8
        r == t % 8
    IN  IF 2 * r < 8 THEN q ELSE q + 1

Tenths(e) ==
    LET t == 10 * e
        q == t \div 8
        r == t % 8
    IN  IF 2 * r < 8 THEN q
        ELSE IF 2 * r > 8 THEN q + 1
        ELSE IF q % 2 = 0 THEN q ELSE q + 1

Fmt_1f(e) ==
    LET a == IF e < 0 THEN -e ELSE e
        t == Tenths(a)
    IN  (IF e < 0 THEN "-" ELSE "") \o ToString(t \div 10) \o "." \o ToString(t % 10)

\* '%s' % s for a str s
Fmt_s(s) == s

\* '%s' % o for a parameter value that may be None
Fmt_s_opt(o) == IF IsNone(o) THEN "None" ELSE Val(o)

\* truth value of an optional string: None and '' are false
TruthyStr(o) == (~IsNone(o)) /\ Val(o) # ""

(***************************************************************************)
(* Splitting a command on blanks (what the shell hands to the binary).     *)
(***************************************************************************)
CharAt(s, i) == SubSeq(s, i, i)

\* last position of the token that holds position j
RECURSIVE TokenEnd(_, _)
TokenEnd(s, j) ==
    IF j = Len(s) \/ CharAt(s, j + 1) = " " THEN j ELSE TokenEnd(s, j + 1)

RECURSIVE SplitFrom(_, _)
SplitFrom(s, i) ==
    IF i > Len(s) THEN <<>>
    ELSE IF CharAt(s, i) = " " THEN SplitFrom(s, i + 1)
    ELSE LET j == TokenEnd(s, i) IN <<SubSeq(s, i, j)>> \o SplitFrom(s, j + 1)

Tokens(s) == SplitFrom(s, 1)

\* positions of token t in the token sequence ts
Positions(ts, t) == {k \in 1..Len(ts) : ts[k] = t}

Has(ts, t) == Positions(ts, t) # {}

\* first position of t in ts (0 when absent)
First(ts, t) ==
    IF Has(ts, t) THEN CHOOSE k \in Positions(ts, t) : \A m \in Positions(ts, t) : k <= m
    ELSE 0

\* flag f is followed at once by value v somewhere in ts
HasPair(ts, f, v) == \E k \in 1..(Len(ts) - 1) : ts[k] = f /\ ts[k + 1] = v

EndsWith(s, t) == Len(t) <= Len(s) /\ SubSeq(s, Len(s) - Len(t) + 1, Len(s)) = t

StartsWith(s, t) == Len(t) <= Len(s) /\ SubSeq(s, 1, Len(t)) = t

(***************************************************************************)
(* Host collaborators.                                                     *)
(***************************************************************************)
\* reliontomo.constants.OUT_SUBTOMOS_STAR
OUT_SUBTOMOS_STAR == "particles.star"

\* Protocol._getExtraPath(*paths): <working dir>/extra[/<name>]
_getExtraPath(workDir, name) ==
    workDir \o "/extra" \o (IF name = "" THEN "" ELSE "/" \o name)

(***************************************************************************)
(* utils.getProgram                                                        *)
(***************************************************************************)
getProgram_AtLeastOne(program, nMpi) ==
    IF nMpi >= 1 THEN program \o "_mpi" ELSE program

getProgram(program, nMpi) ==
    IF nMpi > 1 THEN program \o "_mpi" ELSE program

(***************************************************************************)
(* ProtRelionDeNovoInitialModel._defineParams: the declared defaults.      *)
(* maskDiameter, scratchDir and extraParams are declared without default.  *)
(* zeroMask is an IntParam declared with default False, i.e. 0.            *)
(***************************************************************************)
DnDefaults ==
    [ inputPseudoSubtomosProt |-> "Runs/000002_Prep",
      workingDir              |-> "Runs/000003_DeNovo",
      doCTF                   |-> TRUE,
      ignoreCTFUntilFirstPeak |-> FALSE,
      ctfPhaseFlipped         |-> FALSE,
      padCtf                  |-> FALSE,
      ctfUncorrectedRef       |-> FALSE,
      maxNumberOfIterations   |-> 25,
      numberOfClasses         |-> 1,
      maskDiameter            |-> None,
      zeroMask                |-> 0,
      gradBasedOpt            |-> FALSE,
      gradWriteIter           |-> 10,
      noInitBlobs             |-> FALSE,
      flattenSolvent          |-> FALSE,
      symmetry                |-> "C1",
      angularSamplingDeg      |-> 2,
      offsetSearchRangePix    |-> 6,
      offsetSearchStepPix     |-> 2,
      noParallelDiscIO        |-> FALSE,
      pooledSubtomos          |-> 1,
      allParticlesRam         |-> FALSE,
      combineItersDisc        |-> FALSE,
      scratchDir              |-> None,
      doGpu                   |-> FALSE,
      gpusToUse               |-> "0",
      keepOnlyLastIterFiles   |-> FALSE,
      oversampling            |-> 1,
      extraParams             |-> None,
      numberOfThreads         |-> 1,
      numberOfMpi             |-> 1 ]

\* the BooleanParam entries of the form
DnBooleans ==
    { "doCTF", "ignoreCTFUntilFirstPeak", "ctfPhaseFlipped", "padCtf",
      "ctfUncorrectedRef", "gradBasedOpt", "noInitBlobs", "flattenSolvent",
      "noParallelDiscIO", "allParticlesRam", "combineItersDisc", "doGpu",
      "keepOnlyLastIterFiles" }

\* the values the form offers for each parameter
DnDomain(name) ==
    CASE name \in DnBooleans               -> BOOLEAN
      [] name = "maxNumberOfIterations"    -> {25, 50}
      [] name = "numberOfClasses"          -> {1, 3}
      [] name = "maskDiameter"             -> {None, Some(200), Some(350)}
      [] name = "zeroMask"                 -> {0, 1}
      [] name = "gradWriteIter"            -> {10, 0, 5}
      [] name = "symmetry"                 -> {"C1", "D2"}
      [] name = "angularSamplingDeg"       -> {2, 4}
      [] name = "offsetSearchRangePix"     -> {6, 10}
      [] name = "offsetSearchStepPix"      -> {2, 1}
      [] name = "pooledSubtomos"           -> {1, 3}
      [] name = "scratchDir"               -> {None, Some("/scratch")}
      [] name = "gpusToUse"                -> {"0", "0:1"}
      [] name = "oversampling"             -> {1, 0}
      [] name = "extraParams"              -> {None, Some(""), Some("--verb 1 --pad 2")}
      [] name = "numberOfThreads"          -> {1, 4}
      [] name = "numberOfMpi"              -> {1, 0, 3}
      [] OTHER                             -> {DnDefaults[name]}

\* optional parameters that are away from their declared default
NonDefault(self) ==
    {n \in (DOMAIN self) \ {"maskDiameter"} : self[n] # DnDefaults[n]}

(***************************************************************************)
(* ProtRelionDeNovoInitialModel._genCommand, section by section.           *)
(***************************************************************************)
\* lines 226-230
MandatoryArgs(self) ==
    "--i " \o Fmt_s(_getExtraPath(self.inputPseudoSubtomosProt, OUT_SUBTOMOS_STAR)) \o " "
    \o "--o " \o Fmt_s(_getExtraPath(self.workingDir, "")) \o " "
    \o "--denovo_3dref "
    \o "--j " \o Fmt_i(self.numberOfThreads) \o " "

\* lines 232-241
CtfArgs_PadCtfFirst(self) ==
    (IF self.padCtf THEN "--pad_ctf " ELSE "")
    \o (IF self.doCTF THEN "--ctf " ELSE "")
    \o (IF self.ignoreCTFUntilFirstPeak THEN "--ctf_intact_first_peak " ELSE "")
    \o (IF self.ctfPhaseFlipped THEN "--ctf_phase_flipped " ELSE "")
    \o (IF self.ctfUncorrectedRef THEN "--ctf_uncorrected_ref " ELSE "")

CtfArgs(self) ==
    (IF self.doCTF THEN "--ctf " ELSE "")
    \o (IF self.ignoreCTFUntilFirstPeak THEN "--ctf_intact_first_peak " ELSE "")
    \o (IF self.ctfPhaseFlipped THEN "--ctf_phase_flipped " ELSE "")
    \o (IF self.padCtf THEN "--pad_ctf " ELSE "")
    \o (IF self.ctfUncorrectedRef THEN "--ctf_uncorrected_ref " ELSE "")

\* lines 244-246 (maskDiameter holds a value here)
IterArgs_ClassesFirst(self) ==
    "--K " \o Fmt_i(self.numberOfClasses) \o " "
    \o "--iter " \o Fmt_i(self.maxNumberOfIterations) \o " "
    \o "--particle_diameter " \o Fmt_i(Val(self.maskDiameter)) \o " "

IterArgs(self) ==
    "--iter " \o Fmt_i(self.maxNumberOfIterations) \o " "
    \o "--K " \o Fmt_i(self.numberOfClasses) \o " "
    \o "--particle_diameter " \o Fmt_i(Val(self.maskDiameter)) \o " "

\* lines 247-256
GradArgs(self) ==
    (IF self.zeroMask # 0 THEN "--zero_mask " ELSE "")
    \o (IF self.flattenSolvent THEN "--flatten_solvent " ELSE "")
    \o (IF self.gradBasedOpt THEN "--grad " ELSE "")
    \o (IF self.gradWriteIter # 0
        THEN "--grad_write_iter " \o Fmt_i(self.gradWriteIter) \o " " ELSE "")
    \o (IF self.noInitBlobs THEN "--no_init_blobs " ELSE "")

\* lines 257-260
SamplingArgs_StepRangeSwapped(self) ==
    "--sym " \o Fmt_s(self.symmetry) \o " "
    \o "--healpix_order " \o Fmt_i(self.angularSamplingDeg) \o " "
    \o "--offset_step " \o Fmt_i(self.offsetSearchRangePix) \o " "
    \o "--offset_range " \o Fmt_i(self.offsetSearchStepPix) \o " "

SamplingArgs(self) ==
    "--sym " \o Fmt_s(self.symmetry) \o " "
    \o "--healpix_order " \o Fmt_i(self.angularSamplingDeg) \o " "
    \o "--offset_step " \o Fmt_i(self.offsetSearchStepPix) \o " "
    \o "--offset_range " \o Fmt_i(self.offsetSearchRangePix) \o " "

\* lines 268-269
CombineArg_NotInverted(self) ==
    IF self.combineItersDisc THEN "--dont_combine_weights_via_disc " ELSE ""

CombineArg(self) ==
    IF ~self.combineItersDisc THEN "--dont_combine_weights_via_disc " ELSE ""

\* lines 272-273
GpuArg_Unconditional(self) == "--gpu " \o Fmt_s(self.gpusToUse) \o " "

GpuArg(self) ==
    IF self.doGpu THEN "--gpu " \o Fmt_s(self.gpusToUse) \o " " ELSE ""

\* lines 263-273
ComputeArgs(self) ==
    (IF self.noParallelDiscIO THEN "--no_parallel_disc_io " ELSE "")
    \o "--pool " \o Fmt_i(self.pooledSubtomos) \o " "
    \o (IF self.allParticlesRam THEN "--preread_images " ELSE "")
    \o CombineArg(self)
    \o (IF TruthyStr(self.scratchDir)
        THEN "--scratch_dir " \o Fmt_s(Val(self.scratchDir)) \o " " ELSE "")
    \o GpuArg(self)

\* lines 276-278
AdditionalArgs_NoSeparator(self) ==
    "oversampling " \o Fmt_i(self.oversampling)
    \o (IF TruthyStr(self.extraParams) THEN Val(self.extraParams) ELSE "")

AdditionalArgs(self) ==
    "oversampling " \o Fmt_i(self.oversampling)
    \o (IF TruthyStr(self.extraParams) THEN " " \o Val(self.extraParams) ELSE "")

\* lines 226-273: everything the builder emits before the Additional section
GeneratedArgs(self) ==
    MandatoryArgs(self) \o CtfArgs(self) \o IterArgs(self) \o GradArgs(self)
    \o SamplingArgs(self) \o ComputeArgs(self)

\* '%i' % self.maskDiameter.get() raises TypeError when get() returns None
MaskDiameterRaises(self) == IsNone(self.maskDiameter)

\* the whole method: either a raised exception or the returned string
_genCommand(self) ==
    IF MaskDiameterRaises(self)
    THEN [raised |-> "TypeError", value |-> ""]
    ELSE [raised |-> "", value |-> GeneratedArgs(self) \o AdditionalArgs(self)]

\* ProtRelionDeNovoInitialModel._validate: the body is 'pass'
_validate_RequiresMaskDiameter(self) ==
    IF IsNone(self.maskDiameter) THEN <<"maskDiameter cannot be empty">> ELSE <<>>

_validate(self) == <<>>

\* line 214
nMpi_Configured(self) == self.numberOfMpi

nMpi(self) == IF self.gradBasedOpt THEN 1 ELSE self.numberOfMpi

(***************************************************************************)
(* ProtRelionTomoReconstruct._defineParams: the declared defaults.         *)
(* tomoId is declared without default.  binFactor is a float, held here as *)
(* a number of eighths (default 8 is 64).  tsSamplingRate is the sampling  *)
(* rate of the input particles in hundredths of an Angstrom.               *)
(***************************************************************************)
RcDefaults ==
    [ tomograms       |-> "Runs/000001_Prep/extra/tomograms.star",
      tsSamplingRate  |-> 135,
      workingDir      |-> "Runs/000004_Rec",
      tomoId          |-> None,
      binFactor       |-> 64,
      width           |-> -1,
      height          |-> -1,
      thickness       |-> -1,
      numberOfThreads |-> 4 ]

\* the values the form offers for each parameter
RcDomain(name) ==
    CASE name = "tomoId"          -> {None, Some("TS_01"), Some("TS_43")}
      [] name = "binFactor"       -> (-9)..MaxBinEighths
      [] name = "width"           -> {-1, 960}
      [] name = "height"          -> {-1, 928}
      [] name = "thickness"       -> {-1, 300}
      [] name = "numberOfThreads" -> {4, 1}
      [] OTHER                    -> {RcDefaults[name]}

\* ProtRelionTomoReconstruct._getOutTomoFileName: None + '.mrc' raises
_getOutTomoFileName_NoExtension(self) ==
    IF IsNone(self.tomoId)
    THEN [raised |-> "TypeError", value |-> ""]
    ELSE [raised |-> "", value |-> _getExtraPath(self.workingDir, Val(self.tomoId))]

_getOutTomoFileName(self) ==
    IF IsNone(self.tomoId)
    THEN [raised |-> "TypeError", value |-> ""]
    ELSE [raised |-> "", value |-> _getExtraPath(self.workingDir, Val(self.tomoId) \o ".mrc")]

\* line 115
BinArg(self) == "--bin " \o Fmt_1f(self.binFactor) \o " "

\* ProtRelionTomoReconstruct._genTomoRecCommand
_genTomoRecCommand(self) ==
    LET out == _getOutTomoFileName(self) IN
    IF out.raised # ""
    THEN [raised |-> out.raised, value |-> ""]
    ELSE [raised |-> "",
          value  |-> "--t " \o Fmt_s(self.tomograms) \o " "
                     \o "--tn " \o Fmt_s_opt(self.tomoId) \o " "
                     \o "--o " \o Fmt_s(out.value) \o " "
                     \o BinArg(self)
                     \o "--w " \o Fmt_i(self.width) \o " "
                     \o "--h " \o Fmt_i(self.height) \o " "
                     \o "--d " \o Fmt_i(self.thickness) \o " "
                     \o "--j " \o Fmt_i(self.numberOfThreads) \o " "]

(***************************************************************************)
(* State after construction.                                               *)
(***************************************************************************)
InitDn ==
    /\ dn = DnDefaults
    /\ dnPc = "form"
    /\ dnMsgs = <<>>
    /\ dnSteps = <<>>
    /\ dnRuns = <<>>
    /\ dnRaised = ""

InitRc ==
    /\ rc = RcDefaults
    /\ rcPc = "form"
    /\ rcSteps = <<>>
    /\ rcRuns = <<>>
    /\ rcRaised = ""
    /\ rcOutput = None

Init == InitDn /\ InitRc

(***************************************************************************)
(* De-novo protocol: operations.                                           *)
(***************************************************************************)
\* the user edits one parameter of the form
DnSetParam ==
    /\ dnPc = "form"
    /\ \E name \in DOMAIN dn : \E v \in DnDomain(name) :
          /\ v # dn[name]
          /\ Cardinality(NonDefault([dn EXCEPT ![name] = v])) <= MaxNonDefault
          /\ dn' = [dn EXCEPT ![name] = v]
    /\ UNCHANGED <<dnPc, dnMsgs, dnSteps, dnRuns, dnRaised, rcVars>>

\* launch: _validate, then _insertAllSteps (lines 208-209, 218-219)
\* a run with validation messages is refused by the host and inserts no step
DnInsertAllSteps ==
    /\ dnPc = "form"
    /\ dnMsgs' = _validate(dn)
    /\ IF _validate(dn) = <<>>
       THEN /\ dnSteps' = Append(dnSteps, "_generateDeNovo3DModel")
            /\ dnPc' = "inserted"
       ELSE /\ dnPc' = "rejected"
            /\ UNCHANGED dnSteps
    /\ UNCHANGED <<dn, dnRuns, dnRaised, rcVars>>

\* lines 212-215
DnGenerateDeNovo3DModel ==
    /\ dnPc = "inserted"
    /\ LET n == nMpi(dn)
           program == getProgram("relion_refine", n)
           cmd == _genCommand(dn)
       IN  IF cmd.raised # ""
           THEN /\ dnRaised' = cmd.raised
                /\ dnPc' = "failed"
                /\ UNCHANGED dnRuns
           ELSE /\ dnRuns' = Append(dnRuns,
                        [program |-> program, args |-> cmd.value, numberOfMpi |-> n])
                /\ dnPc' = "finished"
                /\ UNCHANGED dnRaised
    /\ UNCHANGED <<dn, dnMsgs, dnSteps, rcVars>>

(***************************************************************************)
(* Reconstruction protocol: operations.                                    *)
(***************************************************************************)
\* the user edits one parameter of the form
RcSetParam ==
    /\ rcPc = "form"
    /\ \E name \in DOMAIN rc : \E v \in RcDomain(name) :
          /\ v # rc[name]
          /\ rc' = [rc EXCEPT ![name] = v]
    /\ UNCHANGED <<rcPc, rcSteps, rcRuns, rcRaised, rcOutput, dnVars>>

\* lines 80-82
RcInsertAllSteps ==
    /\ rcPc = "form"
    /\ rcSteps' = rcSteps \o <<"_reconstructStep", "_createOutputStep">>
    /\ rcPc' = "inserted"
    /\ UNCHANGED <<rc, rcRuns, rcRaised, rcOutput, dnVars>>

\* lines 86-87: the first inserted step
RcReconstructStep ==
    /\ rcPc = "inserted"
    /\ rcSteps[1] = "_reconstructStep"
    /\ LET cmd == _genTomoRecCommand(rc) IN
       IF cmd.raised # ""
       THEN /\ rcRaised' = cmd.raised
            /\ rcPc' = "failed"
            /\ UNCHANGED rcRuns
       ELSE /\ rcRuns' = Append(rcRuns,
                    [program |-> "relion_tomo_reconstruct_tomogram", args |-> cmd.value])
            /\ rcPc' = "reconstructed"
            /\ UNCHANGED rcRaised
    /\ UNCHANGED <<rc, rcSteps, rcOutput, dnVars>>

\* lines 89-98: the second inserted step, run once the first has returned
RcCreateOutputStep ==
    /\ rcPc = "reconstructed"
    /\ rcSteps[2] = "_createOutputStep"
    /\ LET outFileName == _getOutTomoFileName(rc) IN
       IF outFileName.raised # ""
       THEN /\ rcRaised' = outFileName.raised
            /\ rcPc' = "failed"
            /\ UNCHANGED rcOutput
       ELSE /\ rcOutput' = Some([ location     |-> outFileName.value,
                                  samplingRate |-> rc.tsSamplingRate * rc.binFactor,
                                  tsId         |-> Val(rc.tomoId) ])
            /\ rcPc' = "finished"
            /\ UNCHANGED rcRaised
    /\ UNCHANGED <<rc, rcSteps, rcRuns, dnVars>>

NextRc == RcSetParam \/ RcInsertAllSteps \/ RcReconstructStep \/ RcCreateOutputStep

SpecRc == Init /\ [][NextRc]_vars

Next == DnSetParam \/ DnInsertAllSteps \/ DnGenerateDeNovo3DModel

Spec == Init /\ [][Next]_vars

(***************************************************************************)
(* Vocabulary of the properties.                                           *)
(***************************************************************************)
\* the de-novo step has handed a command to the runner
Ran == dnPc = "finished"

\* the command handed to the runner, and its tokens
Cmd == dnRuns[1].args
Toks == Tokens(Cmd)

\* the command the builder returns for another parameter instance
CmdOf(self) == _genCommand(self).value

\* flags the builder emits under an 'if'
ConditionalFlags ==
    { "--ctf", "--ctf_intact_first_peak", "--ctf_phase_flipped", "--pad_ctf",
      "--ctf_uncorrected_ref", "--zero_mask", "--flatten_solvent", "--grad",
      "--grad_write_iter", "--no_init_blobs", "--no_parallel_disc_io",
      "--preread_images", "--dont_combine_weights_via_disc", "--scratch_dir",
      "--gpu" }

\* every flag of the builder, in the order of its source lines
FlagOrder ==
    << "--i", "--o", "--denovo_3dref", "--j", "--ctf", "--ctf_intact_first_peak",
       "--ctf_phase_flipped", "--pad_ctf", "--ctf_uncorrected_ref", "--iter",
       "--K", "--particle_diameter", "--zero_mask", "--flatten_solvent",
       "--grad", "--grad_write_iter", "--no_init_blobs", "--sym",
       "--healpix_order", "--offset_step", "--offset_range",
       "--no_parallel_disc_io", "--pool", "--preread_images",
       "--dont_combine_weights_via_disc", "--scratch_dir", "--gpu",
       "oversampling" >>

Flags == {FlagOrder[k] : k \in 1..Len(FlagOrder)}

Rank == [f \in Flags |-> CHOOSE k \in 1..Len(FlagOrder) : FlagOrder[k] = f]

IsFlag(t) == t \in Flags

\* the flags of ts stand in the order of the source lines that emit them
InSourceOrder(ts) ==
    LET fs == SelectSeq(ts, IsFlag) IN
    \A i \in 1..(Len(fs) - 1) : Rank[fs[i]] < Rank[fs[i + 1]]

\* the flag each boolean of the form stands for ("" when it has none)
FlagOf(b) ==
    CASE b = "doCTF"                   -> "--ctf"
      [] b = "ignoreCTFUntilFirstPeak" -> "--ctf_intact_first_peak"
      [] b = "ctfPhaseFlipped"         -> "--ctf_phase_flipped"
      [] b = "padCtf"                  -> "--pad_ctf"
      [] b = "ctfUncorrectedRef"       -> "--ctf_uncorrected_ref"
      [] b = "gradBasedOpt"            -> "--grad"
      [] b = "noInitBlobs"             -> "--no_init_blobs"
      [] b = "flattenSolvent"          -> "--flatten_solvent"
      [] b = "noParallelDiscIO"        -> "--no_parallel_disc_io"
      [] b = "allParticlesRam"         -> "--preread_images"
      [] b = "combineItersDisc"        -> "--dont_combine_weights_via_disc"
      [] b = "doGpu"                   -> "--gpu"
      [] OTHER                         -> ""

\* ts with token t put in front of position k
InsertAt(ts, k, t) == SubSeq(ts, 1, k - 1) \o <<t>> \o SubSeq(ts, k, Len(ts))

\* ts without the token at position k
RemoveAt(ts, k) == SubSeq(ts, 1, k - 1) \o SubSeq(ts, k + 1, Len(ts))

\* new is old with the one token t (absent from old) added, and nothing
\* else changed
AddsOneToken(old, new, t) ==
    /\ ~Has(old, t)
    /\ Has(new, t)
    /\ RemoveAt(new, First(new, t)) = old

AllBooleansFalse(self) == \A b \in DnBooleans : ~self[b]

OptionalsAtDefault(self) == NonDefault(self) \subseteq DnBooleans

(***************************************************************************)
(* C1: in the de-novo run step, whenever gradBasedOpt is true the process  *)
(* count handed to the runner is 1 and the program is 'relion_refine'      *)
(* without the '_mpi' suffix, whatever numberOfMpi is configured.          *)
(***************************************************************************)
C1_GradForcesSingleProcess ==
    (Ran /\ dn.gradBasedOpt) =>
        /\ dnRuns[1].numberOfMpi = 1
        /\ dnRuns[1].program = "relion_refine"

C1_Witness == Ran /\ dn.gradBasedOpt /\ dn.numberOfMpi = 3

MandatoryTokens(self) ==
    << "--i", _getExtraPath(self.inputPseudoSubtomosProt, OUT_SUBTOMOS_STAR),
       "--o", _getExtraPath(self.workingDir, ""),
       "--denovo_3dref",
       "--j", "1",
       "--iter", "25",
       "--K", "1",
       "--particle_diameter", ToString(Val(self.maskDiameter)),
       "--sym", "C1",
       "--healpix_order", "2",
       "--offset_step", "2",
       "--offset_range", "6",
       "--pool", "1",
       "oversampling", "1" >>

PlainToggles == DnBooleans \ {"combineItersDisc", "doGpu", "keepOnlyLastIterFiles"}

C5_MandatoryFirstAndOrder ==
    Ran =>
        LET ts   == Toks
            ctf  == First(ts, "--ctf")
            iter == First(ts, "--iter")
            K    == First(ts, "--K")
            diam == First(ts, "--particle_diameter")
            sym  == First(ts, "--sym")
            heal == First(ts, "--healpix_order")
        IN  /\ SubSeq(ts, 1, 5) =
                  << "--i", _getExtraPath(dn.inputPseudoSubtomosProt, OUT_SUBTOMOS_STAR),
                     "--o", _getExtraPath(dn.workingDir, ""), "--denovo_3dref" >>
            /\ (ctf # 0) <=> dn.doCTF
            /\ dn.doCTF => (5 < ctf /\ ctf < iter)
            /\ 5 < iter /\ iter < K /\ K < diam /\ diam < sym /\ sym < heal
            /\ ts[iter + 1] = ToString(dn.maxNumberOfIterations)
            /\ ts[K + 1] = ToString(dn.numberOfClasses)
            /\ ts[diam + 1] = ToString(Val(dn.maskDiameter))
            /\ ts[sym + 1] = dn.symmetry
            /\ ts[heal + 1] = ToString(dn.angularSamplingDeg)

C5_Witness ==
    /\ Ran /\ dn.doCTF
    /\ dn.maskDiameter = Some(200) /\ dn.maxNumberOfIterations = 25
    /\ dn.numberOfClasses = 1 /\ dn.symmetry = "C1" /\ dn.angularSamplingDeg = 2
    /\ \E k \in 1..Len(Toks) :
          SubSeq(Toks, k, k + 6) =
              <<"--ctf", "--iter", "25", "--K", "1", "--particle_diameter", "200">>

(***************************************************************************)
(* C6 as stated: every numeric or string valued option that is emitted is  *)
(* a flag token spelled with the leading '--' followed at once by its      *)
(* value token, the oversampling order of the de-novo variant included.    *)
(***************************************************************************)
\* the valued options of the de-novo form that the command carries
DnValuedOptions(self) ==
    { <<"j", ToString(self.numberOfThreads)>>,
      <<"iter", ToString(self.maxNumberOfIterations)>>,
      <<"K", ToString(self.numberOfClasses)>>,
      <<"particle_diameter", ToString(Val(self.maskDiameter))>>,
      <<"sym", self.symmetry>>,
      <<"healpix_order", ToString(self.angularSamplingDeg)>>,
      <<"offset_step", ToString(self.offsetSearchStepPix)>>,
      <<"offset_range", ToString(self.offsetSearchRangePix)>>,
      <<"pool", ToString(self.pooledSubtomos)>>,
      <<"oversampling", ToString(self.oversampling)>> }

C6_Original ==
    Ran => LET ts == Toks IN
           \A o \in DnValuedOptions(dn) : HasPair(ts, "--" \o o[1], o[2])

(***************************************************************************)
(* C7: with a non-empty extraParams the command ends with that string      *)
(* unchanged, one blank after the last generated token, all generated      *)
(* tokens before it; with extraParams empty or unset nothing follows the   *)
(* last generated token.                                                   *)
(***************************************************************************)
C7_ExtraParamsVerbatimLast ==
    Ran =>
        LET base == GeneratedArgs(dn) \o "oversampling " \o ToString(dn.oversampling) IN
        IF TruthyStr(dn.extraParams)
        THEN /\ EndsWith(Cmd, " " \o Val(dn.extraParams))
             /\ SubSeq(Cmd, 1, Len(Cmd) - Len(Val(dn.extraParams)) - 1) = base
             /\ CharAt(base, Len(base)) # " "
             /\ Toks = Tokens(base) \o Tokens(Val(dn.extraParams))
        ELSE /\ Cmd = base
             /\ CharAt(Cmd, Len(Cmd)) # " "
             /\ Toks[Len(Toks)] = ToString(dn.oversampling)

C7_Witness ==
    /\ Ran
    /\ dn.extraParams = Some("--verb 1 --pad 2")
    /\ EndsWith(Cmd, "oversampling 1 --verb 1 --pad 2")

(***************************************************************************)
(* C8: the command contains '--gpu <gpusToUse>' exactly when doGpu is      *)
(* true; with doGpu false neither '--gpu' nor the device list appears,     *)
(* whatever gpusToUse holds.                                               *)
(***************************************************************************)
C8_GpuOnlyWhenEnabled ==
    Ran =>
        LET ts == Toks IN
        /\ dn.doGpu => HasPair(ts, "--gpu", dn.gpusToUse)
        /\ (~dn.doGpu) =>
              /\ ~Has(ts, "--gpu")
              /\ dn.gpusToUse = "0:1" => ~Has(ts, "0:1")
              /\ \A g \in DnDomain("gpusToUse") :
                    CmdOf([dn EXCEPT !.gpusToUse = g]) = Cmd

C8_Witness == Ran /\ ~dn.doGpu /\ dn.gpusToUse = "0:1"

RcRan == rcPc \in {"reconstructed", "finished"}

RcToks == Tokens(rcRuns[1].args)

Digits == {"0", "1", "2", "3", "4", "5", "6", "7", "8", "9"}

DigitValue(c) ==
    CASE c = "0" -> 0 [] c = "1" -> 1 [] c = "2" -> 2 [] c = "3" -> 3 [] c = "4" -> 4
      [] c = "5" -> 5 [] c = "6" -> 6 [] c = "7" -> 7 [] c = "8" -> 8 [] c = "9" -> 9

\* the number a non-empty string of digits denotes
RECURSIVE Natural(_)
Natural(d) ==
    IF Len(d) = 1 THEN DigitValue(d)
    ELSE 10 * Natural(SubSeq(d, 1, Len(d) - 1)) + DigitValue(CharAt(d, Len(d)))

\* t is [-]digits.digit
IsOneDecimal(t) ==
    LET u == IF CharAt(t, 1) = "-" THEN SubSeq(t, 2, Len(t)) ELSE t IN
    /\ Len(u) >= 3
    /\ CharAt(u, Len(u)) \in Digits
    /\ CharAt(u, Len(u) - 1) = "."
    /\ \A i \in 1..(Len(u) - 2) : CharAt(u, i) \in Digits

\* the number of tenths a one-decimal token denotes
TenthsOf(t) ==
    LET neg == CharAt(t, 1) = "-"
        u   == IF neg THEN SubSeq(t, 2, Len(t)) ELSE t
        n   == 10 * Natural(SubSeq(u, 1, Len(u) - 2)) + DigitValue(CharAt(u, Len(u)))
    IN  IF neg THEN -n ELSE n

(***************************************************************************)
(* C10: the binning factor follows '--bin' as a one-decimal fixed-point    *)
(* token for every input value: 8 gives '8.0', 8.25 gives '8.2', and the   *)
(* token always has exactly one digit after the decimal point (it is the   *)
(* tenth nearest to the input).                                            *)
(***************************************************************************)
C10_BinOneDecimal ==
    RcRan =>
        LET ts  == RcToks
            k   == First(ts, "--bin")
            tok == ts[k + 1]
        IN  /\ k # 0
            /\ IsOneDecimal(tok)
            /\ rc.binFactor = 64 => tok = "8.0"
            /\ rc.binFactor = 66 => tok = "8.2"
            /\ LET d == 8 * TenthsOf(tok) - 10 * rc.binFactor IN -4 <= d /\ d <= 4

C10_Witness ==
    /\ RcRan
    /\ rc.binFactor = 66
    /\ HasPair(RcToks, "--bin", "8.2")

C12_Original ==
    (Ran /\ ~dn.gradBasedOpt) =>
        LET ts == Toks IN
        /\ ~Has(ts, "--grad")
        /\ ~Has(ts, "--grad_write_iter")

(***************************************************************************)
(* C13: in every de-novo run the binary name and the process count handed  *)
(* to the runner agree: with gradBasedOpt false the process count is the   *)
(* configured numberOfMpi, and the program is 'relion_refine_mpi' exactly   *)
(* when the process count is greater than 1 and 'relion_refine' otherwise  *)
(* (a count of 1 or 0 never selects the '_mpi' binary).                    *)
(***************************************************************************)
C13_ProgramAgreesWithProcessCount ==
    Ran =>
        LET run == dnRuns[1] IN
        /\ (~dn.gradBasedOpt) => run.numberOfMpi = dn.numberOfMpi
        /\ run.program \in {"relion_refine", "relion_refine_mpi"}
        /\ (run.program = "relion_refine_mpi") <=> (run.numberOfMpi > 1)
        /\ run.numberOfMpi \in {0, 1} => run.program = "relion_refine"

C13_Witness ==
    /\ Ran /\ ~dn.gradBasedOpt
    /\ dn.numberOfMpi = 3
    /\ dnRuns[1].numberOfMpi = 3
    /\ dnRuns[1].program = "relion_refine_mpi"

====
